---- MODULE Spec2Model ----
(***************************************************************************)
(* A model of the lsh shell of src/src/main.c: the read / log / tokenize / *)
(* dispatch loop (lsh_loop), the builtins (cd, help, exit, history), the   *)
(* process launcher (lsh_launch) with the child it forks, and the history  *)
(* log "history.txt", which is a path relative to the working directory.   *)
(*                                                                         *)
(* A character is a one-character string, a C string is a sequence of      *)
(* characters.  The timestamp field of a history record is not modelled.   *)
(***************************************************************************)
EXTENDS Integers, Sequences, FiniteSets, TLC

VARIABLES
  pc,       \* position of the shell process in lsh_loop / lsh_launch
  iter,     \* number of prompts written so far
  eof,      \* standard input has reached end-of-file
  line,     \* lsh_loop: line
  args,     \* lsh_loop: args (the tokens before the NULL sentinel)
  status,   \* lsh_loop: status
  cwd,      \* working directory of the shell process
  files,    \* per directory: the file history.txt of that directory
  child,    \* unreaped child processes: pid -> process state
  pid,      \* lsh_launch: pid
  wstatus,  \* lsh_launch: status, as last filled in by waitpid
  called,   \* the handler lsh_execute invoked in this iteration
  out,      \* messages written to stdout/stderr in this iteration
  printed,  \* the records lsh_history printed in this iteration
  logged,   \* lsh_loop appended a record in this iteration
  before,   \* working directory and log when this iteration's prompt was written
  prev      \* the line of the previous iteration and the state it started in

vars == <<pc, iter, eof, line, args, status, cwd, files, child, pid, wstatus,
          called, out, printed, logged, before, prev>>

-----------------------------------------------------------------------------
(* Bounds *)

MaxIter == 2     \* iterations of the REPL loop explored
MaxLen == 4      \* length of the lines the tokenizer is explored on
MaxTokens == 130 \* tokens of the longest line the token array is explored on

-----------------------------------------------------------------------------
(* Characters and strings *)

BEL == "^G"      \* the bell character '\a'

\* variant: the bell character is missing from the delimiter set
LSH_TOK_DELIM_no_bell == {" ", "\t", "\r", "\n"}

\* #define LSH_TOK_DELIM " \t\r\n\a"
LSH_TOK_DELIM == {" ", "\t", "\r", "\n", BEL}

\* #define LSH_TOK_BUFSIZE 64
LSH_TOK_BUFSIZE == 64

UpperCase == <<"A","B","C","D","E","F","G","H","I","J","K","L","M",
               "N","O","P","Q","R","S","T","U","V","W","X","Y","Z">>
LowerCase == <<"a","b","c","d","e","f","g","h","i","j","k","l","m",
               "n","o","p","q","r","s","t","u","v","w","x","y","z">>

\* tolower(c), as strcasecmp applies it
tolower(c) ==
  IF \E i \in 1..26 : UpperCase[i] = c
  THEN LowerCase[CHOOSE i \in 1..26 : UpperCase[i] = c]
  ELSE c

\* strcasecmp(a, b) == 0
strcasecmp_eq(a, b) ==
  /\ Len(a) = Len(b)
  /\ \A i \in 1..Len(a) : tolower(a[i]) = tolower(b[i])

\* variant: the dispatcher compares names ignoring case
strcmp_ignoring_case(a, b) == strcasecmp_eq(a, b)

\* strcmp(a, b) == 0
strcmp_eq(a, b) == a = b

-----------------------------------------------------------------------------
(* Tokenizer: lsh_split_line and the strtok calls it makes *)

\* strspn: index of the first character at or after i that is not a delimiter
RECURSIVE SkipDelims(_, _)
SkipDelims(s, i) ==
  IF i <= Len(s) /\ s[i] \in LSH_TOK_DELIM THEN SkipDelims(s, i + 1) ELSE i

\* strpbrk: index of the first delimiter at or after i (Len(s)+1 if none)
RECURSIVE TokenEnd(_, _)
TokenEnd(s, i) ==
  IF i <= Len(s) /\ s[i] \notin LSH_TOK_DELIM THEN TokenEnd(s, i + 1) ELSE i

\* strtok continuing at index save: skip delimiters, cut the token at the
\* next delimiter, remember where to continue
strtok_no_skip(s, save) == save   \* variant: leading delimiters are not skipped

strtok_skip(s, save) == SkipDelims(s, save)

strtok(s, save) ==
  LET b == strtok_skip(s, save) IN
  IF b > Len(s)
  THEN [found |-> FALSE, token |-> <<>>, save |-> b]
  ELSE LET e == TokenEnd(s, b) IN
       [found |-> TRUE, token |-> SubSeq(s, b, e - 1),
        save |-> IF e > Len(s) THEN e ELSE e + 1]

\* variant: the array is grown only once position has passed the capacity
NeedsGrow_late(position, bufsize) == position > bufsize

\* if (position >= bufsize)
NeedsGrow(position, bufsize) == position >= bufsize

\* the NULL pointer stored after the last token; no token is empty
NULL == <<>>

\* a store tokens[index] = token into an array of capacity pointers
Store(index, capacity, token) ==
  [index |-> index, capacity |-> capacity, token |-> token]

\* one test of while (token != NULL) and, if it passes, one run of the loop
\* body: the store tokens[position] = token, position++, the growth of the
\* array and the next strtok. st holds the token strtok returned last, the
\* stores made so far in the order they were made, and the capacity;
\* position is the number of stores made so far. Once token is NULL the
\* loop has ended and st stays as it is.
SplitStep(s, st) ==
  IF ~st.tk.found
  THEN st
  ELSE [tk |-> strtok(s, st.tk.save),
        stores |-> Append(st.stores,
                          Store(Len(st.stores), st.bufsize, st.tk.token)),
        bufsize |-> IF NeedsGrow(Len(st.stores) + 1, st.bufsize)
                    THEN st.bufsize + LSH_TOK_BUFSIZE
                    ELSE st.bufsize]

\* the while loop of lsh_split_line run for at most n tests: the first half
\* of them, and the rest unless token is NULL by then. half is bound to the
\* state the first half ends in, so that state is computed once and the
\* evaluation is nested only as deep as the logarithm of n.
RECURSIVE SplitLoop(_, _, _)
SplitLoop(s, st, n) ==
  IF n = 0 THEN st
  ELSE IF n = 1 THEN SplitStep(s, st)
  ELSE CHOOSE end \in {IF half.tk.found
                       THEN SplitLoop(s, half, n - n \div 2)
                       ELSE half : half \in {SplitLoop(s, st, n \div 2)}} :
         TRUE

\* the stores lsh_split_line makes into the token array: the first strtok,
\* the loop run until token is NULL (a line of Len(l) characters has at most
\* Len(l) tokens) and the store of the sentinel
lsh_split_line_stores(l) ==
  LET st == SplitLoop(l, [tk |-> strtok(l, 1), stores |-> <<>>,
                          bufsize |-> LSH_TOK_BUFSIZE], Len(l))
  IN Append(st.stores, Store(Len(st.stores), st.bufsize, NULL))

\* the array lsh_split_line returns, read up to the NULL sentinel
lsh_split_line(l) ==
  LET st == lsh_split_line_stores(l) IN
    [i \in 1..(Len(st) - 1) |-> st[i].token]

-----------------------------------------------------------------------------
(* Input lines, directories, the history log *)

Lines == {
  <<>>,
  <<" ", "\t", "\r", BEL>>,
  <<"e","x","i","t">>,
  <<"e","x","i","t"," ","1"," ","2">>,
  <<"E","x","i","t">>,
  <<"c","d">>,
  <<"c","d"," ","d">>,
  <<"c","d"," ",".",".">>,
  <<"c","d"," ","x">>,
  <<"C","D"," ","d">>,
  <<"h","e","l","p">>,
  <<"h","i","s","t","o","r","y">>,
  <<"h","i","s","t","o","r","y"," ","-","c">>,
  <<"h","i","s","t","o","r","y"," ","-","C">>,
  <<"h","i","s","t","o","r","y"," ","x">>,
  <<" ","l","s"," "," ","-","l","\t">> }

Root == "/"
SubDir == "/d"
Dirs == {Root, SubDir}

\* chdir(path) called in directory c: the directory it leads to, if any
ChdirTarget(c, path) ==
  IF path = <<"d">> /\ c = Root THEN {SubDir}
  ELSE IF path = <<".", ".">> THEN {Root}
  ELSE {}

Absent == [exists |-> FALSE, recs |-> <<>>]

\* fprintf(fp, "[%s] [%s] %s\n", timestamp, cwd, line)
Record(dir, l) == [cwd |-> dir, line |-> l]

OldRecord == Record(Root, <<"l","s">>)

-----------------------------------------------------------------------------
(* Builtin table *)

builtin_str == << <<"c","d">>, <<"h","e","l","p">>, <<"e","x","i","t">>,
                  <<"h","i","s","t","o","r","y">> >>

builtin_func == <<"lsh_cd", "lsh_help", "lsh_exit", "lsh_history">>

lsh_num_builtins == Len(builtin_str)

-----------------------------------------------------------------------------
(* State after construction *)

Init ==
  /\ pc = "prompt"
  /\ iter = 0
  /\ eof = FALSE
  /\ line = <<>>
  /\ args = <<>>
  /\ status = 1
  /\ cwd = Root
  /\ files \in [Dirs -> {Absent, [exists |-> TRUE, recs |-> <<OldRecord>>]}]
  /\ child = <<>>
  /\ pid = 0
  /\ wstatus = [kind |-> "unset", code |-> 0]
  /\ called = "none"
  /\ out = <<>>
  /\ printed = <<>>
  /\ logged = FALSE
  /\ before = [cwd |-> Root, log |-> Absent]
  /\ prev = [line |-> <<>>, cwd |-> Root, log |-> Absent, logged |-> FALSE]

-----------------------------------------------------------------------------
(* lsh_loop: one iteration, up to the dispatch *)

\* printf("> ")
Prompt ==
  /\ pc = "prompt"
  /\ iter < MaxIter
  /\ iter' = iter + 1
  /\ before' = [cwd |-> cwd, log |-> files[cwd]]
  /\ called' = "none"
  /\ out' = <<>>
  /\ printed' = <<>>
  /\ logged' = FALSE
  /\ pc' = "read"
  /\ UNCHANGED <<eof, line, args, status, cwd, files, child, pid, wstatus, prev>>

\* variant: the shell leaves the loop when it reads at end-of-file
lsh_read_line_stops_at_eof ==
  /\ pc = "read"
  /\ IF eof
     THEN /\ line' = <<>>
          /\ eof' = eof
          /\ pc' = "done"
     ELSE /\ \E l \in Lines, e \in BOOLEAN :
               /\ line' = l
               /\ eof' = e
          /\ pc' = "log"
  /\ UNCHANGED <<iter, args, status, cwd, files, child, pid, wstatus,
                 called, out, printed, logged, before, prev>>

\* line = lsh_read_line(): the characters up to the next '\n' or EOF; once
\* EOF has been hit every call returns the empty line
lsh_read_line ==
  /\ pc = "read"
  /\ IF eof
     THEN /\ line' = <<>>
          /\ eof' = eof
     ELSE \E l \in Lines, e \in BOOLEAN :
            /\ line' = l
            /\ eof' = e
  /\ pc' = "log"
  /\ UNCHANGED <<iter, args, status, cwd, files, child, pid, wstatus,
                 called, out, printed, logged, before, prev>>

\* variant: the log is opened with "w" and loses its earlier records
AppendRecord_truncating(f, r) == [exists |-> TRUE, recs |-> <<r>>]

\* fopen("history.txt", "a") ... fprintf ... fclose
AppendRecord(f, r) == [exists |-> TRUE, recs |-> Append(f.recs, r)]

\* variant: the test for an empty line is missing
LogLine_logs_empty ==
  /\ pc = "log"
  /\ \/ \E dir \in {cwd, "unknown"} :
          /\ files' = [files EXCEPT ![cwd] = AppendRecord(@, Record(dir, line))]
          /\ logged' = TRUE
     \/ /\ files' = files
        /\ logged' = FALSE
  /\ pc' = "split"
  /\ UNCHANGED <<iter, eof, line, args, status, cwd, child, pid, wstatus,
                 called, out, printed, before, prev>>

\* variant: the record always carries the directory the shell started in
LogLine_logs_root ==
  /\ pc = "log"
  /\ IF line # <<>>
     THEN \/ \E dir \in {Root, "unknown"} :
               /\ files' = [files EXCEPT ![cwd] = AppendRecord(@, Record(dir, line))]
               /\ logged' = TRUE
          \/ /\ files' = files
             /\ logged' = FALSE
     ELSE /\ files' = files
          /\ logged' = FALSE
  /\ pc' = "split"
  /\ UNCHANGED <<iter, eof, line, args, status, cwd, child, pid, wstatus,
                 called, out, printed, before, prev>>

\* variant: the record is written to the log of the root directory
LogLine_logs_in_root ==
  /\ pc = "log"
  /\ IF line # <<>>
     THEN \/ \E dir \in {cwd, "unknown"} :
               /\ files' = [files EXCEPT ![Root] = AppendRecord(@, Record(dir, line))]
               /\ logged' = TRUE
          \/ /\ files' = files
             /\ logged' = FALSE
     ELSE /\ files' = files
          /\ logged' = FALSE
  /\ pc' = "split"
  /\ UNCHANGED <<iter, eof, line, args, status, cwd, child, pid, wstatus,
                 called, out, printed, before, prev>>

\* if (line[0] != '\0') { append "[timestamp] [cwd] line" to history.txt }
LogLine ==
  /\ pc = "log"
  /\ IF line # <<>>
     THEN \/ \E dir \in {cwd, "unknown"} :      \* getcwd, or its fallback
               /\ files' = [files EXCEPT ![cwd] = AppendRecord(@, Record(dir, line))]
               /\ logged' = TRUE
          \/ /\ files' = files                  \* fopen returned NULL
             /\ logged' = FALSE
     ELSE /\ files' = files
          /\ logged' = FALSE
  /\ pc' = "split"
  /\ UNCHANGED <<iter, eof, line, args, status, cwd, child, pid, wstatus,
                 called, out, printed, before, prev>>

\* args = lsh_split_line(line)
SplitLine ==
  /\ pc = "split"
  /\ args' = lsh_split_line(line)
  /\ pc' = "execute"
  /\ UNCHANGED <<iter, eof, line, status, cwd, files, child, pid, wstatus,
                 called, out, printed, logged, before, prev>>

-----------------------------------------------------------------------------
(* Builtins *)

\* variant: the loop stops one line early
getline_all_but_last(recs) == SubSeq(recs, 1, Len(recs) - 1)

\* the getline loop of lsh_history: every line of the file, in order
getline_all(recs) == recs

\* variant: every option clears the log
lsh_history_any_option ==
  /\ called' = "lsh_history"
  /\ IF Len(args) >= 2
     THEN \/ /\ files[cwd].exists
             /\ files' = [files EXCEPT ![cwd] = Absent]
             /\ out' = Append(out, "History cleared successfully.")
             /\ printed' = printed
          \/ /\ files' = files
             /\ out' = Append(out, "Error clearing history")
             /\ printed' = printed
     ELSE \/ /\ files[cwd].exists
             /\ out' = Append(out, "History of commands used:")
             /\ printed' = getline_all(files[cwd].recs)
             /\ files' = files
          \/ /\ out' = out \o <<"History of commands used:", "No history found.">>
             /\ UNCHANGED <<files, printed>>
  /\ status' = 1
  /\ pc' = "check"
  /\ UNCHANGED <<cwd, child, pid, wstatus>>

lsh_history ==
  /\ called' = "lsh_history"
  /\ IF Len(args) >= 2
     THEN IF strcasecmp_eq(args[2], <<"-", "c">>)
          THEN \/ /\ files[cwd].exists             \* remove() == 0
                  /\ files' = [files EXCEPT ![cwd] = Absent]
                  /\ out' = Append(out, "History cleared successfully.")
                  /\ printed' = printed
               \/ /\ files' = files                \* remove() != 0
                  /\ out' = Append(out, "Error clearing history")
                  /\ printed' = printed
          ELSE /\ out' = out \o <<"Invalid option", "Usage: history [-c]">>
               /\ UNCHANGED <<files, printed>>
     ELSE \/ /\ files[cwd].exists                  \* fopen(.., "r") != NULL
             /\ out' = Append(out, "History of commands used:")
             /\ printed' = getline_all(files[cwd].recs)
             /\ files' = files
          \/ /\ out' = out \o <<"History of commands used:", "No history found.">>
             /\ UNCHANGED <<files, printed>>
  /\ status' = 1
  /\ pc' = "check"
  /\ UNCHANGED <<cwd, child, pid, wstatus>>

\* variant: cd without an argument goes to the root directory
lsh_cd_home ==
  /\ called' = "lsh_cd"
  /\ IF Len(args) < 2
     THEN /\ out' = out
          /\ cwd' = Root
     ELSE \/ \E t \in ChdirTarget(cwd, args[2]) :
               /\ cwd' = t
               /\ out' = out
          \/ /\ cwd' = cwd
             /\ out' = Append(out, "lsh: chdir error")
  /\ status' = 1
  /\ pc' = "check"
  /\ UNCHANGED <<files, printed, child, pid, wstatus>>

lsh_cd ==
  /\ called' = "lsh_cd"
  /\ IF Len(args) < 2
     THEN /\ out' = Append(out, "lsh: expected argument to \"cd\"")
          /\ cwd' = cwd
     ELSE \/ \E t \in ChdirTarget(cwd, args[2]) :  \* chdir() == 0
               /\ cwd' = t
               /\ out' = out
          \/ /\ cwd' = cwd                         \* chdir() != 0
             /\ out' = Append(out, "lsh: chdir error")
  /\ status' = 1
  /\ pc' = "check"
  /\ UNCHANGED <<files, printed, child, pid, wstatus>>

lsh_help ==
  /\ called' = "lsh_help"
  /\ out' = Append(out, "help")
  /\ status' = 1
  /\ pc' = "check"
  /\ UNCHANGED <<cwd, files, printed, child, pid, wstatus>>

lsh_exit ==
  /\ called' = "lsh_exit"
  /\ status' = 0
  /\ pc' = "check"
  /\ UNCHANGED <<cwd, files, printed, child, pid, wstatus, out>>

-----------------------------------------------------------------------------
(* Process launcher *)

NoStatus == [kind |-> "unset", code |-> 0]

\* variant: the child is started in the root directory
NewChild_in_root == [st |-> "exec", cwd |-> Root, ws |-> NoStatus, reported |-> FALSE]

\* the child as fork() creates it: about to call execvp, in the parent's
\* working directory
NewChild == [st |-> "exec", cwd |-> cwd, ws |-> NoStatus, reported |-> FALSE]

\* variant: a failed fork makes the launcher return 0
lsh_launch_fork_stops ==
  /\ called' = "lsh_launch"
  /\ wstatus' = NoStatus
  /\ \/ /\ child' = child @@ (iter :> NewChild)
        /\ pid' = iter
        /\ pc' = "wait"
        /\ UNCHANGED <<status, out>>
     \/ /\ out' = Append(out, "lsh: fork error")
        /\ pid' = -1
        /\ status' = 0
        /\ pc' = "check"
        /\ child' = child
  /\ UNCHANGED <<cwd, files, printed>>

\* variant: after a failed fork the launcher goes on to the wait loop
lsh_launch_waits_without_child ==
  /\ called' = "lsh_launch"
  /\ wstatus' = NoStatus
  /\ \/ /\ child' = child @@ (iter :> NewChild)
        /\ pid' = iter
        /\ pc' = "wait"
        /\ UNCHANGED <<status, out>>
     \/ /\ out' = Append(out, "lsh: fork error")
        /\ pid' = -1
        /\ status' = status
        /\ pc' = "wait"
        /\ child' = child
  /\ UNCHANGED <<cwd, files, printed>>

\* pid = fork() in lsh_launch, seen from the parent
lsh_launch ==
  /\ called' = "lsh_launch"
  /\ wstatus' = NoStatus
  /\ \/ /\ child' = child @@ (iter :> NewChild)    \* pid > 0
        /\ pid' = iter
        /\ pc' = "wait"
        /\ UNCHANGED <<status, out>>
     \/ /\ out' = Append(out, "lsh: fork error")   \* pid < 0
        /\ pid' = -1
        /\ status' = 1
        /\ pc' = "check"
        /\ child' = child
  /\ UNCHANGED <<cwd, files, printed>>

WIFEXITED(ws) == ws.kind = "exited"
WIFSIGNALED(ws) == ws.kind = "signaled"

\* variant: waitpid is called once, without the loop
WaitAgain_never(ws) == FALSE

\* variant: the two tests are joined by || and the loop never ends
WaitAgain_or(ws) == ~WIFEXITED(ws) \/ ~WIFSIGNALED(ws)

\* the condition of the do .. while around waitpid
WaitAgain(ws) == ~WIFEXITED(ws) /\ ~WIFSIGNALED(ws)

\* variant: the terminated child is not reaped
Reap_none(p) == child

Reap(p) == [q \in (DOMAIN child) \ {p} |-> child[q]]

\* wpid = waitpid(pid, &status, WUNTRACED) returns and the loop condition
\* is evaluated; the launcher returns 1 when the loop ends
Waitpid ==
  /\ pc = "wait"
  /\ pid \in DOMAIN child
  /\ \/ /\ child[pid].st = "zombie"
        /\ wstatus' = child[pid].ws
        /\ child' = Reap(pid)
     \/ /\ child[pid].st = "stopped"
        /\ ~child[pid].reported
        /\ wstatus' = [kind |-> "stopped", code |-> 0]
        /\ child' = [child EXCEPT ![pid].reported = TRUE]
  /\ IF WaitAgain(wstatus')
     THEN /\ pc' = "wait"
          /\ status' = status
     ELSE /\ pc' = "check"
          /\ status' = 1
  /\ UNCHANGED <<iter, eof, line, args, cwd, files, pid, called, out,
                 printed, logged, before, prev>>

\* variant: the child does not exit after the failed execvp and returns
\* from lsh_launch into lsh_loop
ChildExecFails_falls_through(p) ==
  /\ out' = Append(out, "lsh: exec error")
  /\ child' = [child EXCEPT ![p].st = "loop"]

\* execvp(args[0], args) in the child: the program starts, or execvp
\* returns -1, the child calls perror and exit(EXIT_FAILURE)
ChildExecFails(p) ==
  /\ out' = Append(out, "lsh: exec error")
  /\ child' = [child EXCEPT ![p].st = "zombie",
                            ![p].ws = [kind |-> "exited", code |-> 1]]

ChildExec(p) ==
  /\ child[p].st = "exec"
  /\ \/ /\ child' = [child EXCEPT ![p].st = "running"]
        /\ out' = out
     \/ ChildExecFails(p)
  /\ UNCHANGED <<pc, iter, eof, line, args, status, cwd, files, pid, wstatus,
                 called, printed, logged, before, prev>>

\* the launched program exits with some code
ChildExit(p) ==
  /\ child[p].st = "running"
  /\ \E code \in {0, 1} :
       child' = [child EXCEPT ![p].st = "zombie",
                              ![p].ws = [kind |-> "exited", code |-> code]]
  /\ UNCHANGED <<pc, iter, eof, line, args, status, cwd, files, pid, wstatus,
                 called, out, printed, logged, before, prev>>

\* the launched program is terminated by a signal
ChildKilled(p) ==
  /\ child[p].st \in {"running", "stopped"}
  /\ child' = [child EXCEPT ![p].st = "zombie",
                            ![p].ws = [kind |-> "signaled", code |-> 0]]
  /\ UNCHANGED <<pc, iter, eof, line, args, status, cwd, files, pid, wstatus,
                 called, out, printed, logged, before, prev>>

\* the launched program is stopped by a stop signal
ChildStop(p) ==
  /\ child[p].st = "running"
  /\ child' = [child EXCEPT ![p].st = "stopped", ![p].reported = FALSE]
  /\ UNCHANGED <<pc, iter, eof, line, args, status, cwd, files, pid, wstatus,
                 called, out, printed, logged, before, prev>>

\* the stopped program is continued
ChildCont(p) ==
  /\ child[p].st = "stopped"
  /\ child' = [child EXCEPT ![p].st = "running", ![p].reported = FALSE]
  /\ UNCHANGED <<pc, iter, eof, line, args, status, cwd, files, pid, wstatus,
                 called, out, printed, logged, before, prev>>

-----------------------------------------------------------------------------
(* Dispatcher *)

\* the indices i of the for loop at which strcmp(args[0], builtin_str[i]) == 0
Matches(tok) == {i \in 1..lsh_num_builtins : strcmp_eq(tok, builtin_str[i])}

FirstMatch(tok) == CHOOSE i \in Matches(tok) : \A j \in Matches(tok) : i <= j

\* (*builtin_func[i])(args)
CallBuiltin(i) ==
  CASE builtin_func[i] = "lsh_cd" -> lsh_cd
    [] builtin_func[i] = "lsh_help" -> lsh_help
    [] builtin_func[i] = "lsh_exit" -> lsh_exit
    [] builtin_func[i] = "lsh_history" -> lsh_history

\* status = lsh_execute(args)
lsh_execute ==
  /\ pc = "execute"
  /\ IF args = <<>>
     THEN /\ status' = 1
          /\ pc' = "check"
          /\ UNCHANGED <<cwd, files, child, pid, wstatus, called, out, printed>>
     ELSE IF Matches(args[1]) # {}
          THEN CallBuiltin(FirstMatch(args[1]))
          ELSE lsh_launch
  /\ UNCHANGED <<iter, eof, line, args, logged, before, prev>>

\* variant: the loop condition ignores status
LoopCheck_forever ==
  /\ pc = "check"
  /\ prev' = [line |-> line, cwd |-> before.cwd, log |-> before.log,
              logged |-> logged]
  /\ line' = <<>>
  /\ args' = <<>>
  /\ pc' = "prompt"
  /\ UNCHANGED <<iter, eof, status, cwd, files, child, pid, wstatus, called,
                 out, printed, logged, before>>

\* free(line); free(args); } while (status);
LoopCheck ==
  /\ pc = "check"
  /\ prev' = [line |-> line, cwd |-> before.cwd, log |-> before.log,
              logged |-> logged]
  /\ line' = <<>>
  /\ args' = <<>>
  /\ pc' = IF status # 0 THEN "prompt" ELSE "done"
  /\ UNCHANGED <<iter, eof, status, cwd, files, child, pid, wstatus, called,
                 out, printed, logged, before>>

-----------------------------------------------------------------------------

Next ==
  \/ Prompt
  \/ lsh_read_line
  \/ LogLine
  \/ SplitLine
  \/ lsh_execute
  \/ Waitpid
  \/ LoopCheck
  \/ \E p \in DOMAIN child : ChildExec(p)
  \/ \E p \in DOMAIN child : ChildExit(p)
  \/ \E p \in DOMAIN child : ChildKilled(p)
  \/ \E p \in DOMAIN child : ChildStop(p)
  \/ \E p \in DOMAIN child : ChildCont(p)

Spec == Init /\ [][Next]_vars

-----------------------------------------------------------------------------
(* The tokenizer on every line over a small alphabet *)

SplitAlphabet == LSH_TOK_DELIM \cup {"a", "b"}

BoundedLines == UNION {[1..n -> SplitAlphabet] : n \in 0..MaxLen}

SplitInit ==
  /\ pc = "split"
  /\ iter = 1
  /\ eof = FALSE
  /\ line \in BoundedLines
  /\ args = <<>>
  /\ status = 1
  /\ cwd = Root
  /\ files = [d \in Dirs |-> Absent]
  /\ child = <<>>
  /\ pid = 0
  /\ wstatus = [kind |-> "unset", code |-> 0]
  /\ called = "none"
  /\ out = <<>>
  /\ printed = <<>>
  /\ logged = FALSE
  /\ before = [cwd |-> Root, log |-> Absent]
  /\ prev = [line |-> <<>>, cwd |-> Root, log |-> Absent, logged |-> FALSE]

SplitNext == SplitLine

SplitSpec == SplitInit /\ [][SplitNext]_vars

-----------------------------------------------------------------------------
(* Properties *)

T_cd == <<"c","d">>
T_help == <<"h","e","l","p">>
T_exit == <<"e","x","i","t">>
T_history == <<"h","i","s","t","o","r","y">>
T_minus_c == <<"-","c">>

Msg(m) == \E i \in DOMAIN out : out[i] = m

NoHistoryReported == Msg("No history found.")

\* the dispatcher has returned for a `history` line that directly follows a
\* `history -c` line
HistoryAfterClear ==
  /\ pc = "check"
  /\ iter >= 2
  /\ lsh_split_line(prev.line) = <<T_history, T_minus_c>>
  /\ args = <<T_history>>

\* C1 (as stated): `history -c` removes the log and then, as the very next
\* line, `history` is entered: the history builtin reports "No history
\* found."
C1_NoHistoryAfterClear ==
  (HistoryAfterClear /\ ~before.log.exists) => NoHistoryReported

\* C1 (amended): after `history -c` has removed the log, the record of the
\* `history` line entered next is appended before the builtin runs: unless
\* "No history found." is reported the builtin prints exactly one record,
\* the one of the `history` line itself, and "No history found." is
\* reported whenever that record could not be appended.
C1_OwnRecordAfterClear ==
  (HistoryAfterClear /\ ~before.log.exists) =>
    /\ ~NoHistoryReported =>
         /\ logged
         /\ Len(printed) = 1
         /\ printed[1].line = line
    /\ NoHistoryReported => printed = <<>>
    /\ ~logged => NoHistoryReported

C1_Witness ==
  /\ HistoryAfterClear
  /\ ~before.log.exists
  /\ ~NoHistoryReported
  /\ Len(printed) = 1

\* the dispatcher has returned for a `history` line that follows one
\* non-empty line entered when there was no log, and the log could be
\* written and read each time
HistoryAfterOneLine ==
  /\ pc = "check"
  /\ iter >= 2
  /\ prev.line # <<>>
  /\ ~prev.log.exists
  /\ prev.logged
  /\ args = <<T_history>>
  /\ logged
  /\ ~NoHistoryReported

\* C2 (as stated): starting from an absent log, after one non-empty line L
\* and then `history`, the log printed holds exactly one record, and that
\* record contains the text of L.
C2_OneRecord ==
  HistoryAfterOneLine =>
    /\ Len(printed) = 1
    /\ printed[1].line = prev.line

\* C2 (amended): starting from an absent log, after one non-empty line L
\* whose execution neither removes the log nor changes the working
\* directory, and then `history`, the log printed holds exactly two
\* records: the first contains the text of L, the second is the record of
\* the `history` line itself.
C2_TwoRecords ==
  (HistoryAfterOneLine /\ before.log.exists /\ before.cwd = prev.cwd) =>
    /\ Len(printed) = 2
    /\ printed[1].line = prev.line
    /\ printed[2].line = line

C2_Witness ==
  /\ HistoryAfterOneLine
  /\ before.log.exists
  /\ before.cwd = prev.cwd
  /\ Len(printed) = 2
  /\ lsh_split_line(prev.line) = <<T_help>>

\* C3: the dispatcher returns stop (0) only when the first token is exactly
\* `exit`; empty input, cd, help, history and every external launch return
\* continue (1).
C3_OnlyExitStops ==
  pc = "check" =>
    /\ status \in {0, 1}
    /\ status = 0 <=> (args # <<>> /\ args[1] = T_exit)

C3_Witness ==
  /\ pc = "check"
  /\ called = "lsh_launch"
  /\ pid = -1
  /\ status = 1

\* C4: a line whose first token is `exit`, whatever follows it, yields stop
\* and the loop ends in that iteration: from then on no prompt is written,
\* no line read, no record appended and no process launched.
C4_ExitEndsLoop ==
  [][ /\ (pc = "check" /\ args # <<>> /\ args[1] = T_exit) =>
           (status = 0 /\ pc' = "done")
      /\ pc = "done" =>
           (pc' = "done" /\ UNCHANGED <<iter, line, files, child>>) ]_vars

C4_Witness ==
  /\ pc = "done"
  /\ Len(lsh_split_line(prev.line)) = 3
  /\ prev.logged

\* the handler the claim expects for a first token
ExpectedHandler(tok) ==
  IF tok = T_cd THEN "lsh_cd"
  ELSE IF tok = T_help THEN "lsh_help"
  ELSE IF tok = T_exit THEN "lsh_exit"
  ELSE IF tok = T_history THEN "lsh_history"
  ELSE "lsh_launch"

\* C5: for a non-empty argument vector the dispatcher invokes the builtin
\* registered under the first token iff that token is exactly cd, help,
\* exit or history, and then forks no child; for every other first token,
\* case variants included, it invokes the launcher.
C5_Dispatch ==
  (pc \in {"check", "wait"} /\ args # <<>>) =>
    /\ called = ExpectedHandler(args[1])
    /\ called # "lsh_launch" => (pc = "check" /\ DOMAIN child = {})
    /\ pc = "wait" => called = "lsh_launch"

C5_Witness ==
  /\ pc = "wait"
  /\ args[1] = <<"E","x","i","t">>
  /\ called = "lsh_launch"

IsDelim(c) == c \in {" ", "\t", "\r", "\n", BEL}

AllDelims(l) == \A i \in 1..Len(l) : IsDelim(l[i])

\* C6: for a line made only of delimiters (the empty line included) the
\* tokenizer returns no token and the dispatcher returns continue without
\* invoking a handler, forking a child or changing the working directory.
C6_BlankLine ==
  (pc \in {"execute", "check", "wait"} /\ AllDelims(line)) =>
    /\ args = <<>>
    /\ pc # "wait"
    /\ pc = "check" =>
         /\ status = 1
         /\ called = "none"
         /\ DOMAIN child = {}
         /\ cwd = before.cwd

C6_Witness ==
  /\ pc = "check"
  /\ line # <<>>
  /\ AllDelims(line)
  /\ logged

\* the positions of a line at which a maximal run of non-delimiters starts
RunStarts(l) ==
  {i \in 1..Len(l) : ~IsDelim(l[i]) /\ (i = 1 \/ IsDelim(l[i - 1]))}

\* the last position of the run that starts at i
RunEnd(l, i) ==
  CHOOSE j \in i..Len(l) :
    /\ \A k \in i..j : ~IsDelim(l[k])
    /\ j = Len(l) \/ IsDelim(l[j + 1])

\* the k-th run start, counted from the left
NthStart(l, k) ==
  CHOOSE i \in RunStarts(l) : Cardinality({j \in RunStarts(l) : j < i}) = k - 1

RECURSIVE Concat(_)
Concat(ts) == IF ts = <<>> THEN <<>> ELSE Head(ts) \o Concat(Tail(ts))

NonDelim(c) == ~IsDelim(c)

\* C7: lsh_split_line returns exactly the maximal runs of non-delimiter
\* characters of the line, from left to right: no token is empty, none
\* contains a delimiter, and the tokens concatenated are the line with its
\* delimiters removed.
C7_MaximalRuns ==
  pc = "execute" =>
    /\ Len(args) = Cardinality(RunStarts(line))
    /\ \A k \in 1..Len(args) :
         /\ args[k] = SubSeq(line, NthStart(line, k), RunEnd(line, NthStart(line, k)))
         /\ args[k] # <<>>
         /\ \A i \in 1..Len(args[k]) : ~IsDelim(args[k][i])
    /\ Concat(args) = SelectSeq(line, NonDelim)

C7_Witness ==
  /\ pc = "execute"
  /\ Len(line) = 4
  /\ IsDelim(line[2])
  /\ IsDelim(line[3])
  /\ args = << <<"a">>, <<"b">> >>

ExecFailed == Msg("lsh: exec error")

\* C8: when the fork succeeds and the exec fails, the child reports the
\* error and exits with a failure status without returning into the loop
\* (no child ever executes the loop); the parent returns continue with its
\* working directory unchanged and goes on to the next prompt.
C8_ExecFailure ==
  /\ [](\A p \in DOMAIN child : child[p].st # "loop")
  /\ []((ExecFailed /\ pc = "check") =>
          /\ status = 1
          /\ cwd = before.cwd
          /\ wstatus = [kind |-> "exited", code |-> 1]
          /\ DOMAIN child = {})
  /\ [][(ExecFailed /\ pc = "check") => pc' = "prompt"]_vars

C8_Witness ==
  /\ ExecFailed
  /\ pc = "prompt"
  /\ status = 1
  /\ cwd = before.cwd

\* C9: after a successful fork the launcher returns only once the child has
\* exited or has been killed by a signal; while the child runs or is
\* stopped the parent stays in the wait loop and writes no prompt.
C9_WaitForTermination ==
  /\ [](\A p \in DOMAIN child :
          child[p].st \in {"exec", "running", "stopped"} =>
            (pc = "wait" /\ pid = p))
  /\ [][(pc = "wait" /\ pc' # "wait") =>
          /\ pc' = "check"
          /\ wstatus'.kind \in {"exited", "signaled"}
          /\ DOMAIN child' = {}]_vars

C9_Witness ==
  /\ pc = "wait"
  /\ wstatus.kind = "stopped"
  /\ pid \in DOMAIN child
  /\ child[pid].st = "stopped"
  /\ child[pid].reported

\* C10: cd without a second argument, and cd to a target that does not
\* exist or cannot be entered, leave the working directory as it was,
\* report an error and return continue.
C10_CdFailure ==
  (pc = "check" /\ called = "lsh_cd") =>
    /\ status = 1
    /\ Len(args) < 2 =>
         (cwd = before.cwd /\ Msg("lsh: expected argument to \"cd\""))
    /\ (Len(args) >= 2 /\ ChdirTarget(before.cwd, args[2]) = {}) =>
         (cwd = before.cwd /\ Msg("lsh: chdir error"))
    /\ Msg("lsh: chdir error") => cwd = before.cwd

C10_Witness ==
  /\ pc = "check"
  /\ called = "lsh_cd"
  /\ Len(args) = 1
  /\ cwd = SubDir
  /\ out # <<>>

\* a step of lsh_cd in which chdir succeeds
SuccessfulCdStep ==
  /\ pc = "execute"
  /\ args # <<>>
  /\ args[1] = T_cd
  /\ Len(args) >= 2
  /\ cwd' \in ChdirTarget(cwd, args[2])
  /\ ~(\E i \in DOMAIN out' : out'[i] = "lsh: chdir error")

\* C11: after `cd D` succeeds the working directory is D, every child
\* forked later starts in the working directory of the shell, and no step
\* other than a successful cd (help, history, exit, empty input, a launch
\* whatever the child does, a failed cd) changes that directory.
C11_ChildrenInheritCd ==
  /\ [](\A p \in DOMAIN child :
          child[p].cwd = cwd /\ child[p].cwd = before.cwd)
  /\ [][cwd' # cwd => SuccessfulCdStep]_vars
  /\ [][(/\ pc = "execute"
         /\ args # <<>>
         /\ args[1] = T_cd
         /\ Len(args) >= 2
         /\ ~(\E i \in DOMAIN out' : out'[i] = "lsh: chdir error"))
        => cwd' \in ChdirTarget(cwd, args[2])]_vars

C11_Witness ==
  /\ iter = 2
  /\ lsh_split_line(prev.line) = <<T_cd, <<"d">> >>
  /\ pid \in DOMAIN child
  /\ child[pid].cwd = SubDir
  /\ child[pid].st = "running"

\* the log of the working directory is the log the iteration started with
\* plus one record that holds the line
OneRecordAppended ==
  LET old == before.log.recs
      new == files[cwd].recs
  IN /\ files[cwd].exists
     /\ Len(new) = Len(old) + 1
     /\ SubSeq(new, 1, Len(old)) = old
     /\ new[Len(new)].line = line

\* C12: in an iteration whose raw line is non-empty (blank lines and
\* builtin lines included) exactly one record is appended, before the line
\* is tokenized and dispatched; an empty line appends nothing; when the log
\* cannot be opened the record is skipped and the line is still tokenized
\* and dispatched.
C12_OneRecordPerLine ==
  /\ [](pc \in {"split", "execute"} =>
          /\ line = <<>> => (files[cwd] = before.log /\ ~logged)
          /\ line # <<>> => (files[cwd] = before.log \/ OneRecordAppended)
          /\ logged <=> OneRecordAppended
          /\ ~logged <=> files[cwd] = before.log)
  /\ [][pc = "log" =>
          /\ pc' = "split"
          /\ args = <<>>
          /\ called = "none"
          /\ \A d \in Dirs \ {cwd} : files'[d] = files[d]]_vars
  /\ [][pc = "split" => (pc' = "execute" /\ files' = files)]_vars
  /\ [][files' # files => pc \in {"log", "execute"}]_vars

C12_Witness ==
  /\ pc = "execute"
  /\ line # <<>>
  /\ AllDelims(line)
  /\ before.log.exists
  /\ OneRecordAppended

\* the log of the working directory is as the logging step left it
LogKept == IF logged THEN OneRecordAppended ELSE files[cwd] = before.log

HistoryWithOption ==
  /\ pc = "check"
  /\ called = "lsh_history"
  /\ Len(args) >= 2

\* C13 (as stated): the history builtin removes the log only when its
\* second token is exactly `-c`; any other second token is reported as an
\* invalid option and leaves the log and its records in place.
C13_OnlyExactMinusC ==
  (HistoryWithOption /\ args[2] # T_minus_c) =>
    /\ Msg("Invalid option")
    /\ ~Msg("History cleared successfully.")
    /\ LogKept

ClearOptions == {<<"-","c">>, <<"-","C">>}

\* C13 (amended): the history builtin removes the log only when its second
\* token is `-c` or `-C` (the comparison ignores case); any other second
\* token is reported as an invalid option, leaves the log and its records
\* in place, and the builtin returns continue.
C13_MinusCIgnoringCase ==
  /\ []((pc = "check" /\ called = "lsh_history") =>
          /\ status = 1
          /\ (Len(args) >= 2 /\ args[2] \notin ClearOptions) =>
               /\ Msg("Invalid option")
               /\ ~Msg("History cleared successfully.")
               /\ LogKept
          /\ Msg("History cleared successfully.") =>
               /\ Len(args) >= 2
               /\ args[2] \in ClearOptions
               /\ ~files[cwd].exists)
  /\ [][(\E d \in Dirs : files[d].exists /\ ~files'[d].exists) =>
          /\ pc = "execute"
          /\ Len(args) >= 2
          /\ args[1] = T_history
          /\ args[2] \in ClearOptions
          /\ files[cwd].exists
          /\ ~files'[cwd].exists]_vars

C13_Witness ==
  /\ HistoryWithOption
  /\ args[2] = <<"-","C">>
  /\ Msg("History cleared successfully.")
  /\ ~files[cwd].exists

ForkFailed == Msg("lsh: fork error")

\* C14: when fork fails the parent reports the error, waits for no child,
\* leaves no child behind and returns continue, so that the loop goes on to
\* the next prompt.
C14_ForkFailure ==
  /\ [](ForkFailed =>
          /\ pc \in {"check", "prompt"}
          /\ called = "lsh_launch"
          /\ pid = -1
          /\ wstatus = NoStatus
          /\ DOMAIN child = {}
          /\ status = 1)
  /\ [][(ForkFailed /\ pc = "check") => pc' = "prompt"]_vars
  /\ [][(pc = "execute" /\ ForkFailed') =>
          (pc' = "check" /\ child' = child /\ pid' = -1)]_vars

C14_Witness ==
  /\ ForkFailed
  /\ pc = "prompt"
  /\ iter = 2
  /\ DOMAIN child = {}

-----------------------------------------------------------------------------
(* The shell with the scheduling it runs under: the shell process takes     *)
(* its next step when it can, a forked child reaches its execvp, and a      *)
(* launched program eventually exits or is killed by a signal.              *)

Fairness ==
  /\ WF_vars(LogLine)
  /\ WF_vars(SplitLine)
  /\ WF_vars(lsh_execute)
  /\ WF_vars(Waitpid)
  /\ WF_vars(LoopCheck)
  /\ WF_vars(\E p \in DOMAIN child : ChildExec(p))
  /\ WF_vars(\E p \in DOMAIN child : ChildExit(p) \/ ChildKilled(p))

\* the state in which the last iteration explored starts, the iterations
\* before it having read empty lines
LastIterInit ==
  /\ pc = "prompt"
  /\ iter = MaxIter - 1
  /\ eof = FALSE
  /\ line = <<>>
  /\ args = <<>>
  /\ status = 1
  /\ cwd = Root
  /\ files \in [Dirs -> {Absent, [exists |-> TRUE, recs |-> <<OldRecord>>]}]
  /\ child = <<>>
  /\ pid = 0
  /\ wstatus = [kind |-> "unset", code |-> 0]
  /\ called = "none"
  /\ out = <<>>
  /\ printed = <<>>
  /\ logged = FALSE
  /\ before = [cwd |-> Root, log |-> files[Root]]
  /\ prev = [line |-> <<>>, cwd |-> Root, log |-> files[Root], logged |-> FALSE]

FairSpec == LastIterInit /\ [][Next]_vars /\ Fairness

\* C15: every dispatcher invocation comes to the loop test, and the loop
\* goes on to the next prompt unless the invocation returned stop: in one
\* step for empty input and for the builtins, and for a launch once the
\* child has exited or has been killed, which the fairness condition on the
\* child provides.
C15_PromptReappears ==
  /\ (pc = "execute") ~> (pc = "prompt" \/ pc = "done")
  /\ [][(pc = "execute" /\ (args = <<>> \/ Matches(args[1]) # {})) =>
          pc' = "check"]_vars
  /\ [][pc = "check" =>
          pc' = (IF status = 0 THEN "done" ELSE "prompt")]_vars

C15_Witness ==
  /\ pc = "prompt"
  /\ called = "lsh_launch"
  /\ wstatus.kind = "signaled"
  /\ iter = MaxIter

\* C16: the shell has at most one unreaped child, and none while it writes
\* the prompt or reads a line: a child is created by a successful fork in
\* lsh_launch and is reaped by the waitpid of the same call, before the
\* next iteration starts.
C16_OneChildReaped ==
  /\ [](/\ Cardinality(DOMAIN child) <= 1
        /\ DOMAIN child # {} => (pc = "wait" /\ DOMAIN child = {pid})
        /\ pc \in {"prompt", "read", "log", "split", "execute", "check", "done"}
             => DOMAIN child = {})
  /\ [][DOMAIN child' # DOMAIN child =>
          \/ /\ pc = "execute"
             /\ pc' = "wait"
             /\ DOMAIN child = {}
             /\ DOMAIN child' = {pid'}
          \/ /\ pc = "wait"
             /\ pc' = "check"
             /\ child[pid].st = "zombie"
             /\ DOMAIN child' = {}]_vars

C16_Witness ==
  /\ iter = 2
  /\ pc = "wait"
  /\ DOMAIN child = {pid}
  /\ child[pid].st = "zombie"
  /\ prev.line = <<" ","l","s"," "," ","-","l","\t">>

\* the last record of the log of directory d
LastRecord(d) == files[d].recs[Len(files[d].recs)]

\* C17 (as stated): the directory written in the record of a line is the
\* working directory of the shell before the line is executed.
C17_RecordCarriesCwd ==
  (pc \in {"split", "execute"} /\ logged) => LastRecord(cwd).cwd = before.cwd

\* C17 (amended): the directory written in the record of a line is the
\* working directory of the shell before the line is executed, or the
\* literal "unknown" when getcwd fails: the record of a `cd D` that succeeds
\* carries the previous directory (or "unknown"), the record of the next
\* non-empty line carries D (or "unknown"), and between two lines the
\* directory changes only by a successful cd, to its target.
C17_RecordCarriesCwdOrUnknown ==
  /\ (pc \in {"split", "execute"} /\ logged) =>
       /\ cwd = before.cwd
       /\ LastRecord(cwd).line = line
       /\ LastRecord(cwd).cwd \in {before.cwd, "unknown"}
  /\ (pc = "check" /\ called = "lsh_cd" /\ logged) =>
       /\ LastRecord(before.cwd).line = line
       /\ LastRecord(before.cwd).cwd \in {before.cwd, "unknown"}
  /\ (/\ iter >= 2
      /\ pc \in {"read", "log", "split", "execute", "wait", "check"}
      /\ before.cwd # prev.cwd) =>
       LET a == lsh_split_line(prev.line) IN
         /\ Len(a) >= 2
         /\ a[1] = T_cd
         /\ before.cwd \in ChdirTarget(prev.cwd, a[2])

C17_Witness ==
  /\ iter = 2
  /\ pc = "split"
  /\ logged
  /\ lsh_split_line(prev.line) = <<T_cd, <<"d">> >>
  /\ prev.cwd = Root
  /\ LastRecord(cwd).cwd = SubDir
  /\ LastRecord(cwd).line = <<"h","e","l","p">>

\* the prompt after an iteration, with no log in the working directory
AbsentAtPrompt ==
  /\ pc = "prompt"
  /\ iter >= 1
  /\ ~files[cwd].exists

Cleared == Msg("History cleared successfully.")

\* C18 (as stated): when the log can be opened for appending, it is absent
\* at a prompt only immediately after a successful `history -c`, or before
\* the first non-empty line.
C18_AbsentOnlyAfterClear ==
  (AbsentAtPrompt /\ (prev.line # <<>> => prev.logged)) =>
    \/ Cleared
    \/ (prev.line = <<>> /\ ~prev.log.exists)

\* C18 (amended): when the record of the invoking line could be appended,
\* the log exists when the builtin runs: `history` without modifier reports
\* "No history found." only if the existing log cannot be opened for
\* reading, and `history -c` never fails for lack of a log file; the log of
\* the working directory is absent at a prompt only immediately after a
\* successful `history -c`, after a successful cd into a directory without
\* a log, or when it was absent at the previous prompt and no record has
\* been appended since.
C18_LogExistsForBuiltin ==
  /\ (pc = "execute" /\ logged) => files[cwd].exists
  /\ (/\ pc = "check"
      /\ called = "lsh_history"
      /\ logged
      /\ (NoHistoryReported \/ Msg("Error clearing history")))
       => files[cwd].exists
  /\ AbsentAtPrompt =>
       \/ Cleared
       \/ cwd # prev.cwd
       \/ (~prev.log.exists /\ ~prev.logged)

C18_Witness ==
  /\ AbsentAtPrompt
  /\ prev.logged
  /\ ~Cleared
  /\ cwd = SubDir
  /\ prev.cwd = Root

\* C19: once standard input is at end-of-file every later lsh_read_line
\* returns the empty line, and the loop does not stop on its own: such an
\* iteration appends no record, dispatches the empty argument vector,
\* returns continue and goes back to the prompt; the loop ends only after a
\* line whose first token is `exit`.
C19_LoopAtEof ==
  /\ [][eof => eof']_vars
  /\ [][(pc = "read" /\ eof) => (line' = <<>> /\ pc' = "log")]_vars
  /\ []((eof /\ line = <<>> /\ pc \in {"split", "execute", "check"}) =>
          /\ ~logged
          /\ files[cwd] = before.log
          /\ args = <<>>
          /\ pc = "check" => (status = 1 /\ called = "none"))
  /\ [][(pc = "check" /\ eof /\ line = <<>>) => pc' = "prompt"]_vars
  /\ [][pc' = "done" =>
          \/ pc = "done"
          \/ (pc = "check" /\ args # <<>> /\ args[1] = T_exit)]_vars

C19_Witness ==
  /\ iter = 2
  /\ pc = "prompt"
  /\ eof
  /\ prev.line = <<>>
  /\ called = "none"
  /\ status = 1

-----------------------------------------------------------------------------
(* The tokenizer on lines of many tokens *)

\* the line "a a a .. a" of n tokens
TokLine(n) ==
  IF n = 0 THEN <<>>
  ELSE [i \in 1..(2 * n - 1) |-> IF i % 2 = 1 THEN "a" ELSE " "]

TokInit ==
  /\ pc = "split"
  /\ iter = 1
  /\ eof = FALSE
  /\ line \in {TokLine(n) : n \in 0..MaxTokens}
  /\ args = <<>>
  /\ status = 1
  /\ cwd = Root
  /\ files = [d \in Dirs |-> Absent]
  /\ child = <<>>
  /\ pid = 0
  /\ wstatus = [kind |-> "unset", code |-> 0]
  /\ called = "none"
  /\ out = <<>>
  /\ printed = <<>>
  /\ logged = FALSE
  /\ before = [cwd |-> Root, log |-> Absent]
  /\ prev = [line |-> <<>>, cwd |-> Root, log |-> Absent, logged |-> FALSE]

TokSpec == TokInit /\ [][SplitNext]_vars

\* C20: in lsh_split_line every store into the token array, the store of
\* the end sentinel included, writes at an index strictly below the current
\* capacity: the capacity is raised by LSH_TOK_BUFSIZE as soon as position
\* reaches it.
C20_StoresWithinCapacity ==
  pc = "execute" =>
    LET st == lsh_split_line_stores(line) IN
      /\ Len(st) = Len(args) + 1
      /\ \A i \in 1..Len(st) :
           /\ st[i].index = i - 1
           /\ st[i].index < st[i].capacity
           /\ st[i].capacity = 64 * ((i - 1) \div 64 + 1)

C20_Witness ==
  /\ pc = "execute"
  /\ Len(args) = 128
  /\ lsh_split_line_stores(line)[129] = Store(128, 192, NULL)

====
